---- MODULE Spec2Model ----
(***************************************************************************)
(* Model of the nighty-mcp listing formatters:                             *)
(*   product_formatter.py   (format_description, call_mcp, parse_prices)   *)
(*   goshippro_formatter.py (parse_block)                                  *)
(*   logging_helper.py      (builtins.log)                                 *)
(*                                                                         *)
(* A text is a sequence of characters.  An ASCII character is the string   *)
(* of that character; a character outside ASCII is the string of its name  *)
(* ("NL" newline, "FIRE", "BELL", "SMILE", "EURO", "POUND", "RI_U" the     *)
(* regional indicator U, ...).  The regular expressions of the source are  *)
(* translated to matchers over these sequences.                            *)
(***************************************************************************)
EXTENDS Integers, Sequences, FiniteSets, TLC

----------------------------------------------------------------------------
(* Characters and the character classes of Python's re module *)

Digits == {"0", "1", "2", "3", "4", "5", "6", "7", "8", "9"}

UpperSeq == <<"A", "B", "C", "D", "E", "F", "G", "H", "I", "J", "K", "L", "M",
              "N", "O", "P", "Q", "R", "S", "T", "U", "V", "W", "X", "Y", "Z">>

LowerSeq == <<"a", "b", "c", "d", "e", "f", "g", "h", "i", "j", "k", "l", "m",
              "n", "o", "p", "q", "r", "s", "t", "u", "v", "w", "x", "y", "z">>

Uppers == {UpperSeq[i] : i \in 1..26}

Lowers == {LowerSeq[i] : i \in 1..26}

\* [A-Za-z]
Letters == Uppers \cup Lowers

\* [A-Za-z0-9]
AlNum == Letters \cup Digits

\* letters of the template outside ASCII: word characters, not in [A-Za-z]
Accented == {"iacute", "aacute", "eacute"}

\* \w
WordChars == AlNum \cup {"_"} \cup Accented

\* \s, and what str.strip() removes
Space == {" ", "NL"}

\* [$€£]
Currency == {"$", "EURO", "POUND"}

\* [0-9.]
NumChars == Digits \cup {"."}

\* the three header emoji
Emoji == {"BELL", "FIRE", "SMILE"}

\* str.upper() on one character
upper(c) == IF c \in Lowers THEN UpperSeq[CHOOSE i \in 1..26 : LowerSeq[i] = c] ELSE c

Min(S) == CHOOSE x \in S : \A y \in S : x <= y

Max(S) == CHOOSE x \in S : \A y \in S : x >= y

\* the character at index i, "" outside the text
At(s, i) == IF i >= 1 /\ i <= Len(s) THEN s[i] ELSE ""

\* \b between index i-1 and index i
IsBoundary(s, i) == (At(s, i - 1) \in WordChars) # (At(s, i) \in WordChars)

\* end (exclusive) of the greedy run [C]* starting at i
SpanEnd(s, i, C) == IF i > Len(s) THEN i ELSE Min({j \in i..(Len(s) + 1) : At(s, j) \notin C})

\* end (exclusive) of the greedy run [^C]* starting at i
SpanEndNot(s, i, C) ==
    IF i > Len(s) THEN i ELSE Min({j \in i..(Len(s) + 1) : j = Len(s) + 1 \/ At(s, j) \in C})

\* the literal lit at index i
LitAt(s, i, lit) ==
    /\ i >= 1
    /\ i + Len(lit) - 1 <= Len(s)
    /\ \A k \in 1..Len(lit) : s[i + k - 1] = lit[k]

\* the literal lit at index i under re.I
LitAtI(s, i, lit) ==
    /\ i >= 1
    /\ i + Len(lit) - 1 <= Len(s)
    /\ \A k \in 1..Len(lit) : upper(s[i + k - 1]) = upper(lit[k])

\* "lit in s"
Contains(s, lit) == \E i \in 1..Len(s) : LitAt(s, i, lit)

\* index of the leftmost occurrence of lit under re.I, 0 if none
FindI(s, lit) ==
    LET S == {i \in 1..Len(s) : LitAtI(s, i, lit)}
    IN IF S = {} THEN 0 ELSE Min(S)

\* str.strip()
strip(s) ==
    LET S == {i \in 1..Len(s) : s[i] \notin Space}
    IN IF S = {} THEN <<>> ELSE SubSeq(s, Min(S), Max(S))

\* the text from index i to the end of its line: [^\n]* at i
LineEnd(s, i) == SpanEndNot(s, i, {"NL"})

RECURSIVE SortedSeq(_)
\* a finite set of integers as an increasing sequence
SortedSeq(S) == IF S = {} THEN <<>> ELSE <<Min(S)>> \o SortedSeq(S \ {Min(S)})

\* the non-empty pieces of s between (runs of) separator characters C, in
\* order: re.split("[C]+", s) and s.split(c) without their empty pieces
Pieces(s, C) ==
    LET starts == SortedSeq({i \in 1..Len(s) : s[i] \notin C /\ (i = 1 \/ s[i - 1] \in C)})
    IN [k \in 1..Len(starts) |-> SubSeq(s, starts[k], SpanEndNot(s, starts[k], C) - 1)]

\* the pieces stripped, the blank ones dropped
StrippedPieces(s, C) ==
    LET ps == Pieces(s, C)
        keep == SortedSeq({k \in 1..Len(ps) : strip(ps[k]) # <<>>})
    IN [k \in 1..Len(keep) |-> strip(ps[keep[k]])]

\* \d+(?:\.\d+)? at index i: its end (exclusive), 0 if it does not match
NumEnd(s, i) ==
    LET d == SpanEnd(s, i, Digits)
    IN IF At(s, i) \notin Digits THEN 0
       ELSE IF At(s, d) = "." /\ At(s, d + 1) \in Digits
            THEN SpanEnd(s, d + 1, Digits)
            ELSE d

\* [$€£]?\d+(?:\.\d+)? at index i: its end (exclusive), 0 if it does not match
AmountEnd(s, i) == IF At(s, i) \in Currency THEN NumEnd(s, i + 1) ELSE NumEnd(s, i)

----------------------------------------------------------------------------
(* product_formatter.py: the field extractors *)

\* the (country, flag) pairs of the fixed display order
COUNTRY_ORDER ==
    << [code |-> <<"U","S","A">>, flag |-> <<"RI_U","RI_S">>],
       [code |-> <<"U","K">>,     flag |-> <<"RI_G","RI_B">>],
       [code |-> <<"D","E">>,     flag |-> <<"RI_D","RI_E">>],
       [code |-> <<"A","U">>,     flag |-> <<"RI_A","RI_U">> ] >>

\* a dict, in insertion order: d[code] = val
DictPut(d, key, val) ==
    IF \E k \in 1..Len(d) : d[k].key = key
    THEN [k \in 1..Len(d) |-> IF d[k].key = key THEN [key |-> key, val |-> val] ELSE d[k]]
    ELSE Append(d, [key |-> key, val |-> val])

\* key in d
DictHas(d, key) == \E k \in 1..Len(d) : d[k].key = key

\* d[key]
DictGet(d, key) == d[CHOOSE k \in 1..Len(d) : d[k].key = key].val

\* d.keys()
DictKeys(d) == [k \in 1..Len(d) |-> d[k].key]

\* s.upper()
upper_str(s) == [k \in 1..Len(s) |-> upper(s[k])]

\* infer_type_emoji: bell for Daily, fire for Dropshipper(s), neutral otherwise
infer_type_emoji(raw_header) ==
    IF Contains(raw_header, <<"D","a","i","l","y">>) THEN "BELL"
    ELSE IF Contains(raw_header, <<"D","r","o","p","s","h","i","p","p","e","r">>)
            \/ Contains(raw_header, <<"D","r","o","p","s","h","i","p","p","e","r","s">>)
         THEN "FIRE"
         ELSE "SMILE"

\* length of the country code [A-Za-z]{2,3} of format 1 at index i, which
\* stands between two \b; 0 if there is none
M1CodeLen(sub, i) ==
    IF ~IsBoundary(sub, i) \/ At(sub, i) \notin Letters \/ At(sub, i + 1) \notin Letters THEN 0
    ELSE IF At(sub, i + 2) \in Letters /\ IsBoundary(sub, i + 3) THEN 3
    ELSE IF IsBoundary(sub, i + 2) THEN 2
    ELSE 0

\* start of the amount of format 1 for the code at index i: after [^$€£\d]*
M1AmountAt(sub, i) == SpanEndNot(sub, i + M1CodeLen(sub, i), Currency \cup Digits)

\* format 1, "USA $99": \b([A-Za-z]{2,3})\b[^$€£\d]*([$€£]?\d+(?:\.\d+)?) matches at i
M1At(sub, i) == M1CodeLen(sub, i) # 0 /\ AmountEnd(sub, M1AmountAt(sub, i)) # 0

\* index of "to" of format 2 for the amount at index i: after \s*
M2ToAt(sub, i) == SpanEnd(sub, AmountEnd(sub, i), Space)

\* index of the country code of format 2 for the amount at index i
M2CodeAt(sub, i) == SpanEnd(sub, M2ToAt(sub, i) + 2, Space)

\* format 2, "$99 to USA": ([$€£]?\d+(?:\.\d+)?)\s*to\s*([A-Za-z]{2,3}), re.I, matches at i
M2At(sub, i) ==
    /\ AmountEnd(sub, i) # 0
    /\ LitAtI(sub, M2ToAt(sub, i), <<"t","o">>)
    /\ At(sub, M2CodeAt(sub, i)) \in Letters
    /\ At(sub, M2CodeAt(sub, i) + 1) \in Letters

\* the greedy length of [A-Za-z]{2,3} at index c
M2CodeLen(sub, c) == IF At(sub, c + 2) \in Letters THEN 3 ELSE 2

\* shipping\s*([$€£]?\d+(?:\.\d+)?), re.I: the shipping amount of a fragment, "N/A" if none
ShippingOf(sub) ==
    LET S == {i \in 1..Len(sub) :
                 /\ LitAtI(sub, i, <<"s","h","i","p","p","i","n","g">>)
                 /\ AmountEnd(sub, SpanEnd(sub, i + 8, Space)) # 0}
        a == SpanEnd(sub, Min(S) + 8, Space)
    IN IF S = {} THEN <<"N","/","A">> ELSE SubSeq(sub, a, AmountEnd(sub, a) - 1)

\* one fragment of parse_prices: the dict after it
PriceEntry(data, sub) ==
    LET S1 == {i \in 1..Len(sub) : M1At(sub, i)}
        S2 == {i \in 1..Len(sub) : M2At(sub, i)}
        i1 == Min(S1)
        a1 == M1AmountAt(sub, i1)
        i2 == Min(S2)
        c2 == M2CodeAt(sub, i2)
    IN IF S1 # {}
       THEN DictPut(data, upper_str(SubSeq(sub, i1, i1 + M1CodeLen(sub, i1) - 1)),
                    [price |-> SubSeq(sub, a1, AmountEnd(sub, a1) - 1), shipping |-> ShippingOf(sub)])
       ELSE IF S2 # {}
       THEN DictPut(data, upper_str(SubSeq(sub, c2, c2 + M2CodeLen(sub, c2) - 1)),
                    [price |-> SubSeq(sub, i2, AmountEnd(sub, i2) - 1), shipping |-> ShippingOf(sub)])
       ELSE data

RECURSIVE Flatten(_)
\* the concatenation of a sequence of sequences
Flatten(ss) == IF ss = <<>> THEN <<>> ELSE Head(ss) \o Flatten(Tail(ss))

\* the fragments of parse_prices: split on [\n,;]+, then on '/', stripped, blanks skipped
Fragments(text) ==
    LET parts == StrippedPieces(text, {"NL", ",", ";"})
    IN Flatten([k \in 1..Len(parts) |-> StrippedPieces(parts[k], {"/"})])

RECURSIVE FoldPrices(_, _)
\* the loop of parse_prices over the fragments
FoldPrices(frags, data) ==
    IF frags = <<>> THEN data ELSE FoldPrices(Tail(frags), PriceEntry(data, Head(frags)))

\* parse_prices(text): country code -> {price, shipping}
parse_prices(text) == FoldPrices(Fragments(text), <<>>)

RECURSIVE CutAt(_, _, _, _)
\* s from index i on, without the n characters at each of the indices idx
CutAt(s, i, idx, n) ==
    IF idx = <<>> THEN SubSeq(s, i, Len(s))
    ELSE SubSeq(s, i, Head(idx) - 1) \o CutAt(s, Head(idx) + n, Tail(idx), n)

\* \d{4}[seps]\d{2}[seps]\d{2} at index i
DateAt(s, i, seps) ==
    /\ \A k \in {0, 1, 2, 3, 5, 6, 8, 9} : At(s, i + k) \in Digits
    /\ At(s, i + 4) \in seps
    /\ At(s, i + 7) \in seps

\* the date line: "*" + the first date, its "/" replaced by "-", + "*"; "" without a date
DateLine(s, seps) ==
    LET S == {i \in 1..Len(s) : DateAt(s, i, seps)}
        d == SubSeq(s, Min(S), Min(S) + 9)
    IN IF S = {} THEN <<>>
       ELSE <<"*">> \o [k \in 1..10 |-> IF d[k] = "/" THEN "-" ELSE d[k]] \o <<"*">>

\* re.sub(r"\b\d{4}[-/]\d{2}[-/]\d{2}\b", "", s)
StripDates(s) ==
    LET S == {i \in 1..Len(s) : DateAt(s, i, {"/", "-"}) /\ IsBoundary(s, i) /\ IsBoundary(s, i + 10)}
    IN IF S = {} THEN s
       ELSE CutAt(s, 1, SortedSeq(S), 10)

\* start of the group of Keyword[^:]*:\s*(.+) for "Keyword" at index i, 0 if no match
KeywordGroupAt(text, i) ==
    LET c == SpanEndNot(text, i + 7, {":"})
        w == SpanEnd(text, c + 1, Space)
        K == {k \in (c + 1)..w : k <= Len(text) /\ text[k] # "NL"}
    IN IF ~LitAtI(text, i, <<"K","e","y","w","o","r","d">>) \/ c > Len(text) \/ K = {} THEN 0
       ELSE Max(K)

\* the keyword: re.search(r"Keyword[^:]*:\s*(.+)", text, re.I), group 1 stripped; "" if none
KeywordOf(text) ==
    LET S == {i \in 1..Len(text) : KeywordGroupAt(text, i) # 0}
        g == KeywordGroupAt(text, Min(S))
    IN IF S = {} THEN <<>> ELSE strip(SubSeq(text, g, LineEnd(text, g) - 1))

\* re.sub(r"Keyword.*$", "", text, flags=re.I | re.S)
StripKeyword(text) ==
    LET i == FindI(text, <<"K","e","y","w","o","r","d">>)
    IN IF i = 0 THEN text ELSE SubSeq(text, 1, i - 1)

\* length of the country code of shipping_re at index i ("To " is at i - 3), 0 if none
ShipCodeLen(s, i) ==
    IF At(s, i) \notin Uppers \/ At(s, i + 1) \notin Uppers THEN 0
    ELSE IF At(s, i + 2) \in Uppers /\ At(s, i + 3) = ":" /\ At(s, i + 4) = " " THEN 3
    ELSE IF At(s, i + 2) = ":" /\ At(s, i + 3) = " " THEN 2
    ELSE 0

\* To ([A-Z]{2,3}): ([<dayChars>]+ days) matches at index i
ShippingAt(s, i, dayChars) ==
    LET n == ShipCodeLen(s, i + 3)
        a == i + 3 + n + 2
        r == SpanEnd(s, a, dayChars)
    IN /\ LitAt(s, i, <<"T","o"," ">>)
       /\ n # 0
       /\ r > a
       /\ LitAt(s, r, <<" ","d","a","y","s">>)

RECURSIVE ShippingFold(_, _, _, _)
\* the dict of the matches of shipping_re at the indices idx, in order
ShippingFold(s, idx, dayChars, ship) ==
    IF idx = <<>> THEN ship
    ELSE LET i == Head(idx)
             n == ShipCodeLen(s, i + 3)
             a == i + 3 + n + 2
             r == SpanEnd(s, a, dayChars)
         IN ShippingFold(s, Tail(idx), dayChars,
                         DictPut(ship, SubSeq(s, i + 3, i + 2 + n), SubSeq(s, a, r + 4)))

\* shipping_re.findall as a dict country -> days
ShippingTimes(text, dayChars) ==
    ShippingFold(text, SortedSeq({i \in 1..Len(text) : ShippingAt(text, i, dayChars)}), dayChars, <<>>)

\* parse_shipping of product_formatter.py: the day range is [0-9\-]+
parse_shipping(text) == ShippingTimes(text, Digits \cup {"-"})

\* profit_re.findall: \$([0-9.]+)
parse_profits(text) ==
    LET idx == SortedSeq({i \in 1..Len(text) : text[i] = "$" /\ At(text, i + 1) \in NumChars})
    IN [k \in 1..Len(idx) |-> SubSeq(text, idx[k] + 1, SpanEnd(text, idx[k] + 1, NumChars) - 1)]

\* margin_re.findall: ([0-9.]+)%
parse_margins(text) ==
    LET idx == SortedSeq({i \in 1..Len(text) :
                             /\ text[i] \in NumChars
                             /\ At(text, i - 1) \notin NumChars
                             /\ At(text, SpanEnd(text, i, NumChars)) = "%"})
    IN [k \in 1..Len(idx) |-> SubSeq(text, idx[k], SpanEnd(text, idx[k], NumChars) - 1)]

\* re.search(label + r"[^\n]*", text, re.I).group(0): the first line tail starting
\* with one of the labels, <<>> if there is none (a match is never empty)
LabelLine(text, labels) ==
    LET S == {i \in 1..Len(text) : \E l \in labels : LitAtI(text, i, l)}
    IN IF S = {} THEN <<>> ELSE SubSeq(text, Min(S), LineEnd(text, Min(S)) - 1)

\* ":" in line
HasColon(line) == \E k \in 1..Len(line) : line[k] = ":"

\* line.split(":", 1)[1].strip(), for a line with a colon
AfterColon(line) ==
    strip(SubSeq(line, Min({k \in 1..Len(line) : line[k] = ":"}) + 1, Len(line)))

\* start of the number of Gross Weight:?\s*([0-9.]+\s*kg) for the label at index i
WeightNumAt(text, i) == SpanEnd(text, i + 12 + (IF At(text, i + 12) = ":" THEN 1 ELSE 0), Space)

\* index of "kg" for the number at index b
WeightKgAt(text, b) == SpanEnd(text, SpanEnd(text, b, NumChars), Space)

\* the weight: re.search(r"Gross Weight:?\s*([0-9.]+\s*kg)", text, re.I), "? kg" without a match
WeightOf(text) ==
    LET S == {i \in 1..Len(text) :
                 /\ LitAtI(text, i, <<"G","r","o","s","s"," ","W","e","i","g","h","t">>)
                 /\ At(text, WeightNumAt(text, i)) \in NumChars
                 /\ LitAtI(text, WeightKgAt(text, WeightNumAt(text, i)), <<"k","g">>)}
        b == WeightNumAt(text, Min(S))
    IN IF S = {} THEN <<"?"," ","k","g">> ELSE SubSeq(text, b, WeightKgAt(text, b) + 1)

\* re.search(rf"\b{code}\b[^$€£\d]*[$€£]?\d", p)
CodeThenAmount(p, code) ==
    \E i \in 1..Len(p) :
        LET j == SpanEndNot(p, i + Len(code), Currency \cup Digits)
        IN /\ IsBoundary(p, i)
           /\ LitAt(p, i, code)
           /\ IsBoundary(p, i + Len(code))
           /\ \/ At(p, j) \in Digits
              \/ At(p, j) \in Currency /\ At(p, j + 1) \in Digits

\* re.search(rf"[$€£]?\d+(?:\.\d+)?\s*to\s*{code}\b", p, re.I)
AmountToCode(p, code) ==
    \E i \in 1..Len(p) :
        /\ AmountEnd(p, i) # 0
        /\ LitAtI(p, M2ToAt(p, i), <<"t","o">>)
        /\ LitAtI(p, M2CodeAt(p, i), code)
        /\ IsBoundary(p, M2CodeAt(p, i) + Len(code))

RECURSIVE Join(_, _)
\* sep.join(parts)
Join(parts, sep) ==
    IF parts = <<>> THEN <<>>
    ELSE IF Len(parts) = 1 THEN parts[1]
    ELSE parts[1] \o sep \o Join(Tail(parts), sep)

\* remove_price_sections(text, codes): the pieces that hold no price of a parsed country
remove_price_sections(text, codes) ==
    LET ps == StrippedPieces(text, {"NL", ",", ";"})
        keep == SortedSeq({k \in 1..Len(ps) :
                    ~\E c \in 1..Len(codes) :
                        CodeThenAmount(ps[k], codes[c]) \/ AmountToCode(ps[k], codes[c])})
    IN Join([k \in 1..Len(keep) |-> ps[keep[k]]], <<" ">>)

----------------------------------------------------------------------------
(* The renderer, the same in both formatters *)

\* TEMPLATE_MD.format(...)
TEMPLATE_MD(emoji, name, date_line, price_lines, weight, ship_times, metrics_section, keyword) ==
    <<emoji>> \o <<" ","*","*">> \o name \o <<"*","*","NL">>
    \o date_line
    \o <<"NL","NL","MONEYBAG"," ","*","*","P","r","e","c","i","o"," ","(","p","r","o","d","u","c","t","o",
         " ","+"," ","e","n","v","iacute","o",")","*","*","NL">>
    \o price_lines
    \o <<"NL","NL","PACKAGE"," ","*","*","L","o","g","iacute","s","t","i","c","a","*","*","NL",
         "-"," ","P","e","s","o"," ","b","r","u","t","o",":"," ">>
    \o weight
    \o <<"NL","-"," ","T","r","aacute","n","s","i","t","o",":"," ">>
    \o ship_times
    \o <<"NL","NL">>
    \o metrics_section
    \o <<"NL","KEY"," ","K","e","y","w","o","r","d"," ","1","6","8","8",":"," ","BACKTICK">>
    \o keyword
    \o <<"BACKTICK">>

\* the transit summary: the days of USA, EU and AU joined by a middle dot, "?" if there are none
ShipTimesStr(ship_times) ==
    LET codes == << <<"U","S","A">>, <<"E","U">>, <<"A","U">> >>
        have == SortedSeq({k \in 1..3 : DictHas(ship_times, codes[k])})
        parts == [k \in 1..Len(have) |-> codes[have[k]] \o <<" ">> \o DictGet(ship_times, codes[have[k]])]
    IN IF parts = <<>> THEN <<"?">> ELSE Join(parts, <<" ","MIDDOT"," ">>)

\* the metrics section: the orders line and the recommended retail price, "" without both
MetricsSection(orders_line, rrp) ==
    LET metrics_lines ==
            (IF orders_line # <<>> THEN << <<"-"," ">> \o orders_line >> ELSE <<>>)
            \o (IF rrp # <<>>
                THEN << <<"-"," ","P","V","P"," ","r","e","c","o","m","e","n","d","a","d","o",":"," ","*","*">>
                        \o rrp \o <<"*","*">> >>
                ELSE <<>>)
    IN IF metrics_lines = <<>> THEN <<>>
       ELSE <<"CHART"," ","*","*","M","eacute","t","r","i","c","a","s","*","*","NL">>
            \o Join(metrics_lines, <<"NL">>) \o <<"NL","NL">>

----------------------------------------------------------------------------
(* product_formatter.py: format_description *)

\* the profit annotation of the price line at display index k (1-based)
PriceExtra(k, profits, margins) ==
    IF profits # <<>> /\ k <= Len(profits)
    THEN <<" ","(","MONEYWINGS"," ","$">> \o profits[k]
         \o (IF margins # <<>> /\ k <= Len(margins)
             THEN <<" ","BULLET"," ">> \o margins[k] \o <<"%",")">>
             ELSE <<")">>)
    ELSE <<>>

\* PriceLines with the loop over the parsed countries, in the order of the input
PriceLines_InputOrder(price_info, profits, margins) ==
    LET pos(code) == CHOOSE k \in 1..Len(COUNTRY_ORDER) : COUNTRY_ORDER[k].code = code
        have == SelectSeq(DictKeys(price_info),
                          LAMBDA c : \E k \in 1..Len(COUNTRY_ORDER) : COUNTRY_ORDER[k].code = c)
    IN [j \in 1..Len(have) |->
          <<"-"," ">> \o COUNTRY_ORDER[pos(have[j])].flag \o <<" ">> \o have[j]
          \o <<":"," ","*","*">> \o DictGet(price_info, have[j]).price \o <<"*","*">>
          \o PriceExtra(pos(have[j]), profits, margins)]

\* PriceLines with the profit figures indexed by the position among the
\* countries that have a price
PriceLines_PresentIndex(price_info, profits, margins) ==
    LET have == SortedSeq({k \in 1..Len(COUNTRY_ORDER) : DictHas(price_info, COUNTRY_ORDER[k].code)})
    IN [j \in 1..Len(have) |->
          <<"-"," ">> \o COUNTRY_ORDER[have[j]].flag \o <<" ">> \o COUNTRY_ORDER[have[j]].code
          \o <<":"," ","*","*">> \o DictGet(price_info, COUNTRY_ORDER[have[j]].code).price \o <<"*","*">>
          \o PriceExtra(j, profits, margins)]

\* the price lines of format_description: one per display-order country with a price
PriceLines(price_info, profits, margins) ==
    LET have == SortedSeq({k \in 1..Len(COUNTRY_ORDER) : DictHas(price_info, COUNTRY_ORDER[k].code)})
    IN [j \in 1..Len(have) |->
          <<"-"," ">> \o COUNTRY_ORDER[have[j]].flag \o <<" ">> \o COUNTRY_ORDER[have[j]].code
          \o <<":"," ","*","*">> \o DictGet(price_info, COUNTRY_ORDER[have[j]].code).price \o <<"*","*">>
          \o PriceExtra(have[j], profits, margins)]

\* the locals of format_description before the categorization call; raised when
\* a split(":", 1)[1] finds no colon (IndexError)
FormatLocals(text) ==
    LET cleaned0 == StripKeyword(text)
        cleaned == StripDates(cleaned0)
        price_info == parse_prices(cleaned)
        orders == LabelLine(cleaned, {<<"O","r","d","e","r","s">>, <<"U","n","i","t","s"," ","S","o","l","d">>})
        profit == LabelLine(cleaned, {<<"P","r","o","f","i","t"," ","P","e","r"," ","U","n","i","t">>})
        margin == LabelLine(cleaned, {<<"P","r","o","f","i","t"," ","M","a","r","g","i","n">>})
        rrp == LabelLine(cleaned, {<<"R","e","c","o","m","m","e","n","d","e","d"," ","R","e","t","a","i","l",
                                     " ","P","r","i","c","e">>})
        raised == (orders # <<>> /\ ~HasColon(orders)) \/ (rrp # <<>> /\ ~HasColon(rrp))
    IN [raised |-> raised,
        emoji |-> infer_type_emoji(text),
        keyword |-> KeywordOf(text),
        date_line |-> DateLine(cleaned0, {"/", "-"}),
        price_info |-> price_info,
        title |-> strip(remove_price_sections(cleaned, DictKeys(price_info))),
        weight |-> WeightOf(cleaned),
        ship_times |-> parse_shipping(cleaned),
        orders_line |-> IF orders # <<>> /\ HasColon(orders) THEN AfterColon(orders) ELSE <<>>,
        profits |-> IF profit # <<>> THEN parse_profits(profit) ELSE <<>>,
        margins |-> IF margin # <<>> THEN parse_margins(margin) ELSE <<>>,
        rrp |-> IF rrp # <<>> /\ HasColon(rrp) THEN AfterColon(rrp) ELSE <<>>]

\* the rendering of format_description from its locals
FormatRender(l) ==
    TEMPLATE_MD(l.emoji,
                IF l.title # <<>> THEN l.title ELSE <<"P","r","o","d","u","c","t">>,
                l.date_line,
                Join(PriceLines(l.price_info, l.profits, l.margins), <<"NL">>),
                l.weight,
                ShipTimesStr(l.ship_times),
                MetricsSection(l.orders_line, l.rrp),
                l.keyword)

----------------------------------------------------------------------------
(* goshippro_formatter.py: parse_block *)

\* price_re, \$([0-9.]+) to ([A-Z]{2}), matches at index i
gs_PriceAt(line, i) ==
    LET r == SpanEnd(line, i + 1, NumChars)
    IN /\ line[i] = "$"
       /\ r > i + 1
       /\ LitAt(line, r, <<" ","t","o"," ">>)
       /\ At(line, r + 4) \in Uppers
       /\ At(line, r + 5) \in Uppers

RECURSIVE gs_PriceFold(_, _, _)
\* the dict of the matches of price_re at the indices idx, in order
gs_PriceFold(line, idx, prices) ==
    IF idx = <<>> THEN prices
    ELSE LET i == Head(idx)
             r == SpanEnd(line, i + 1, NumChars)
         IN gs_PriceFold(line, Tail(idx),
                         DictPut(prices, SubSeq(line, r + 4, r + 5), SubSeq(line, i + 1, r - 1)))

\* parse_prices of goshippro_formatter.py: country -> price
gs_parse_prices(line) ==
    gs_PriceFold(line, SortedSeq({i \in 1..Len(line) : gs_PriceAt(line, i)}), <<>>)

\* parse_shipping of goshippro_formatter.py: the day range is [0-9\\-]+
gs_parse_shipping(line) == ShippingTimes(line, Digits \cup {"-", "BACKSLASH"})

\* line.startswith(lit)
StartsWith(line, lit) == LitAt(line, 1, lit)

\* the locals of parse_block before the loop over the lines
gs_Fields0 ==
    [raised |-> FALSE, prices |-> <<>>, profits |-> <<>>, margins |-> <<>>,
     weight |-> <<"?"," ","k","g">>, orders_line |-> <<>>, rrp |-> <<>>,
     ship_times |-> <<>>, keyword |-> <<>>]

\* a field taken after the colon of its line; the line without a colon raises IndexError
gs_SetAfterColon(f, field, line) ==
    IF HasColon(line) THEN [f EXCEPT ![field] = AfterColon(line)] ELSE [f EXCEPT !.raised = TRUE]

\* one line of the loop of parse_block
gs_Line(f, line) ==
    IF Contains(line, <<"G","o","s","h","i","p","p","r","o"," ","P","r","i","c","e">>)
    THEN [f EXCEPT !.prices = gs_parse_prices(line)]
    ELSE IF StartsWith(line, <<"G","r","o","s","s"," ","W","e","i","g","h","t">>)
    THEN gs_SetAfterColon(f, "weight", line)
    ELSE IF Contains(line, <<"O","r","d","e","r","s">>) \/ Contains(line, <<"U","n","i","t","s"," ","S","o","l","d">>)
    THEN gs_SetAfterColon(f, "orders_line", line)
    ELSE IF StartsWith(line, <<"P","r","o","f","i","t"," ","P","e","r"," ","U","n","i","t">>)
    THEN [f EXCEPT !.profits = parse_profits(line)]
    ELSE IF StartsWith(line, <<"P","r","o","f","i","t"," ","M","a","r","g","i","n">>)
    THEN [f EXCEPT !.margins = parse_margins(line)]
    ELSE IF StartsWith(line, <<"R","e","c","o","m","m","e","n","d","e","d"," ","R","e","t","a","i","l",
                               " ","P","r","i","c","e">>)
    THEN gs_SetAfterColon(f, "rrp", line)
    ELSE IF StartsWith(line, <<"T","o"," ","U","S","A">>)
    THEN [f EXCEPT !.ship_times = gs_parse_shipping(line)]
    ELSE IF StartsWith(line, <<"K","e","y","w","o","r","d">>)
    THEN gs_SetAfterColon(f, "keyword", line)
    ELSE f

RECURSIVE gs_Lines(_, _)
\* the loop of parse_block over lines[1:], which an exception leaves
gs_Lines(f, lines) ==
    IF lines = <<>> \/ f.raised THEN f ELSE gs_Lines(gs_Line(f, Head(lines)), Tail(lines))

\* the emoji of parse_block: inferred from the first character alone when that
\* is one of the three emoji, from the header otherwise
gs_Emoji(header) ==
    IF header[1] \in Emoji THEN infer_type_emoji(<<header[1]>>) ELSE infer_type_emoji(header)

\* the display indices (1-based) with a price
gs_Priced(prices) == SortedSeq({k \in 1..Len(COUNTRY_ORDER) : DictHas(prices, COUNTRY_ORDER[k].code)})

\* profits[idx] or margins[idx] is out of range for a priced country (IndexError)
gs_ExtraRaises(prices, profits, margins) ==
    \E j \in 1..Len(gs_Priced(prices)) :
        /\ profits # <<>>
        /\ \/ gs_Priced(prices)[j] > Len(profits)
           \/ margins # <<>> /\ gs_Priced(prices)[j] > Len(margins)

\* the price lines of parse_block, when no index is out of range
gs_PriceLines(prices, profits, margins) ==
    LET have == gs_Priced(prices)
    IN [j \in 1..Len(have) |->
          <<"-"," ">> \o COUNTRY_ORDER[have[j]].flag \o <<" ">> \o COUNTRY_ORDER[have[j]].code
          \o <<":"," ","*","*","$">> \o DictGet(prices, COUNTRY_ORDER[have[j]].code) \o <<"*","*">>
          \o (IF profits # <<>>
              THEN <<" ","(","MONEYWINGS"," ","$">> \o profits[have[j]]
                   \o (IF margins # <<>>
                       THEN <<" ","BULLET"," ">> \o margins[have[j]] \o <<"%",")">>
                       ELSE <<")">>)
              ELSE <<>>)]

\* parse_block(raw): the rendering, or raised when an IndexError leaves it
parse_block(raw) ==
    LET lines == StrippedPieces(raw, {"NL"})
        header == lines[1]
        f == gs_Lines(gs_Fields0, Tail(lines))
    IN IF lines = <<>> THEN [raised |-> FALSE, out |-> <<>>, prices |-> <<>>, header |-> <<>>, orders_line |-> <<>>]
       ELSE IF f.raised \/ gs_ExtraRaises(f.prices, f.profits, f.margins)
       THEN [raised |-> TRUE, out |-> <<>>, prices |-> f.prices, header |-> header,
             orders_line |-> f.orders_line]
       ELSE [raised |-> FALSE, prices |-> f.prices, header |-> header, orders_line |-> f.orders_line,
             out |-> TEMPLATE_MD(gs_Emoji(header),
                                 strip(SubSeq(header, SpanEndNot(header, 1, AlNum), Len(header))),
                                 DateLine(header, {"/"}),
                                 Join(gs_PriceLines(f.prices, f.profits, f.margins), <<"NL">>),
                                 f.weight,
                                 ShipTimesStr(f.ship_times),
                                 MetricsSection(f.orders_line, f.rrp),
                                 f.keyword)]

\* format_description(text) run to its end with a categorization call that returns
format_description(text) ==
    IF strip(text) = <<>> THEN [raised |-> FALSE, out |-> <<>>]
    ELSE IF FormatLocals(text).raised THEN [raised |-> TRUE, out |-> <<>>]
    ELSE [raised |-> FALSE, out |-> FormatRender(FormatLocals(text))]

----------------------------------------------------------------------------
(* product_formatter.py: the categorization call *)

\* start of the group of ```(?:[a-zA-Z0-9_-]+)?\n(.*?)``` for the fence at index i, 0 if no match
FenceGroupAt(text, i) ==
    LET n == SpanEnd(text, i + 3, AlNum \cup {"_", "-"})
    IN IF LitAt(text, i, <<"BACKTICK","BACKTICK","BACKTICK">>)
          /\ At(text, n) = "NL"
          /\ \E j \in (n + 1)..Len(text) : LitAt(text, j, <<"BACKTICK","BACKTICK","BACKTICK">>)
       THEN n + 1 ELSE 0

\* clean_block(text): the body of the first fenced block, or the text, stripped
clean_block(text) ==
    LET S == {i \in 1..Len(text) : FenceGroupAt(text, i) # 0}
        g == FenceGroupAt(text, Min(S))
        e == Min({j \in g..Len(text) : LitAt(text, j, <<"BACKTICK","BACKTICK","BACKTICK">>)})
    IN IF S = {} THEN strip(text) ELSE strip(SubSeq(text, g, e - 1))

\* the sentinel call_mcp returns on a failure
Unknown == <<"U","n","k","n","o","w","n">>

\* timeout=30 of requests.post
TIMEOUT == 30

\* what the endpoint can answer to the POST: a JSON body with or without
\* "output", a non-success status (raise_for_status raises), a connection error
\* (requests.post raises), a body that is not JSON (resp.json() raises)
Responses ==
    { [kind |-> "ok", output |-> <<"G","a","d","g","e","t","s">>],
      [kind |-> "ok", output |-> <<"BACKTICK","BACKTICK","BACKTICK","t","e","x","t","NL",
                                   "T","o","y","s","NL","BACKTICK","BACKTICK","BACKTICK">>],
      [kind |-> "ok", output |-> <<>>],
      [kind |-> "http_error", output |-> <<>>],
      [kind |-> "connection_error", output |-> <<>>],
      [kind |-> "bad_json", output |-> <<>>] }

----------------------------------------------------------------------------
(* The listings the formatters are run on *)

\*   |<FIRE> Daily Dropshipper 2024/06/30|
\*   |Goshippro Price: $50 to USA, $40 to UK|
\*   |Gross Weight: 1.2kg|
\*   |To USA: 10-15 days|
\*   |Keyword: gadget|
T_E2E ==
    <<"FIRE"," ","D","a","i","l","y"," ","D","r","o","p","s","h","i","p","p","e","r"," ","2","0",
      "2","4","/","0","6","/","3","0","NL","G","o","s","h","i","p","p","r","o"," ","P","r","i","c",
      "e",":"," ","$","5","0"," ","t","o"," ","U","S","A",","," ","$","4","0"," ","t","o"," ","U",
      "K","NL","G","r","o","s","s"," ","W","e","i","g","h","t",":"," ","1",".","2","k","g","NL","T",
      "o"," ","U","S","A",":"," ","1","0","-","1","5"," ","d","a","y","s","NL","K","e","y","w","o",
      "r","d",":"," ","g","a","d","g","e","t">>

\*   |USA $5|
T_Usa5 ==
    <<"U","S","A"," ","$","5">>

\*   |  |
T_Blank ==
    <<" "," ">>

\*   |US $5, GB <POUND>4|
T_Alias ==
    <<"U","S"," ","$","5",","," ","G","B"," ","POUND","4">>

\*   |$99 to Germany|
T_Germany ==
    <<"$","9","9"," ","t","o"," ","G","e","r","m","a","n","y">>

\*   |USA $70 shipping $5 / <EURO>60 to DE|
\*   |USA $75|
T_Mixed ==
    <<"U","S","A"," ","$","7","0"," ","s","h","i","p","p","i","n","g"," ","$","5"," ","/"," ",
      "EURO","6","0"," ","t","o"," ","D","E","NL","U","S","A"," ","$","7","5">>

\*   |Hause Price (Product Cost+Shipping Cost): $4.03 to USA|
T_Hause ==
    <<"H","a","u","s","e"," ","P","r","i","c","e"," ","(","P","r","o","d","u","c","t"," ","C","o",
      "s","t","+","S","h","i","p","p","i","n","g"," ","C","o","s","t",")",":"," ","$","4",".","0",
      "3"," ","t","o"," ","U","S","A">>

\*   |Widget|
\*   |USA $5|
\*   |Orders 2100|
T_OrdersNoColon ==
    <<"W","i","d","g","e","t","NL","U","S","A"," ","$","5","NL","O","r","d","e","r","s"," ","2","1",
      "0","0">>

\*   |Widget|
\*   |Daily deal|
\*   |UK <POUND>7 / DE <EURO>8|
\*   |Orders: 2100|
\*   |Recommended Retail Price: $19|
T_Orders ==
    <<"W","i","d","g","e","t","NL","D","a","i","l","y"," ","d","e","a","l","NL","U","K"," ","POUND",
      "7"," ","/"," ","D","E"," ","EURO","8","NL","O","r","d","e","r","s",":"," ","2","1","0","0",
      "NL","R","e","c","o","m","m","e","n","d","e","d"," ","R","e","t","a","i","l"," ","P","r","i",
      "c","e",":"," ","$","1","9">>

\*   |Dropshippers pick|
\*   |Units Sold: 2100+|
\*   |USA $5|
T_OrdersPlus ==
    <<"D","r","o","p","s","h","i","p","p","e","r","s"," ","p","i","c","k","NL","U","n","i","t","s",
      " ","S","o","l","d",":"," ","2","1","0","0","+","NL","U","S","A"," ","$","5">>

\*   |Dropshipper gadget, AU $3, UK <POUND>2, EU <EURO>1, USA $4|
T_Unordered ==
    <<"D","r","o","p","s","h","i","p","p","e","r"," ","g","a","d","g","e","t",","," ","A","U"," ",
      "$","3",","," ","U","K"," ","POUND","2",","," ","E","U"," ","EURO","1",","," ","U","S","A",
      " ","$","4">>

\*   |Widget|
\*   |AU $9 shipping $1; DE <EURO>8|
\*   |Profit Per Unit: $1 $2|
\*   |Profit Margin: 5%|
\*   |To EU: 5-6 days|
T_Profits ==
    <<"W","i","d","g","e","t","NL","A","U"," ","$","9"," ","s","h","i","p","p","i","n","g"," ","$",
      "1",";"," ","D","E"," ","EURO","8","NL","P","r","o","f","i","t"," ","P","e","r"," ","U","n",
      "i","t",":"," ","$","1"," ","$","2","NL","P","r","o","f","i","t"," ","M","a","r","g","i","n",
      ":"," ","5","%","NL","T","o"," ","E","U",":"," ","5","-","6"," ","d","a","y","s">>

\*   |Widget|
\*   |UK <POUND>7 / DE <EURO>8 / AU $9|
\*   |Profit Per Unit: $1 $2 $3|
\*   |Profit Margin: 5% 6%|
T_Pairing ==
    <<"W","i","d","g","e","t","NL","U","K"," ","POUND","7"," ","/"," ","D","E"," ","EURO","8"," ",
      "/"," ","A","U"," ","$","9","NL","P","r","o","f","i","t"," ","P","e","r"," ","U","n","i","t",
      ":"," ","$","1"," ","$","2"," ","$","3","NL","P","r","o","f","i","t"," ","M","a","r","g","i",
      "n",":"," ","5","%"," ","6","%">>

\*   |Gizmo|
\*   |USA $4 / DE <EURO>8|
\*   |Profit Per Unit: $1 $2|
\*   |Profit Margin: 5% 6% 7%|
T_MoreMargins ==
    <<"G","i","z","m","o","NL","U","S","A"," ","$","4"," ","/"," ","D","E"," ","EURO","8","NL","P",
      "r","o","f","i","t"," ","P","e","r"," ","U","n","i","t",":"," ","$","1"," ","$","2","NL","P",
      "r","o","f","i","t"," ","M","a","r","g","i","n",":"," ","5","%"," ","6","%"," ","7","%">>

\*   |Dropshippers Y 2024/01/02|
\*   |Goshippro Price: $50 to UK, $40 to DE, $3.5 to AU|
\*   |Profit Per Unit: $3, $4, $5, $6|
\*   |Profit Margin: 10%, 20%, 30%, 40%|
\*   |Orders: 2100|
\*   |To USA: 10-15 days To EU: 7-9 days|
\*   |Keyword: abc|
B_Full ==
    <<"D","r","o","p","s","h","i","p","p","e","r","s"," ","Y"," ","2","0","2","4","/","0","1","/",
      "0","2","NL","G","o","s","h","i","p","p","r","o"," ","P","r","i","c","e",":"," ","$","5","0",
      " ","t","o"," ","U","K",","," ","$","4","0"," ","t","o"," ","D","E",","," ","$","3",".","5",
      " ","t","o"," ","A","U","NL","P","r","o","f","i","t"," ","P","e","r"," ","U","n","i","t",":",
      " ","$","3",","," ","$","4",","," ","$","5",","," ","$","6","NL","P","r","o","f","i","t"," ",
      "M","a","r","g","i","n",":"," ","1","0","%",","," ","2","0","%",","," ","3","0","%",","," ",
      "4","0","%","NL","O","r","d","e","r","s",":"," ","2","1","0","0","NL","T","o"," ","U","S","A",
      ":"," ","1","0","-","1","5"," ","d","a","y","s"," ","T","o"," ","E","U",":"," ","7","-","9",
      " ","d","a","y","s","NL","K","e","y","w","o","r","d",":"," ","a","b","c">>

\*   |Daily Dropshipper|
\*   |Goshippro Price: $50 to UK|
\*   |Gross Weight 1.2kg|
B_NoColon ==
    <<"D","a","i","l","y"," ","D","r","o","p","s","h","i","p","p","e","r","NL","G","o","s","h","i",
      "p","p","r","o"," ","P","r","i","c","e",":"," ","$","5","0"," ","t","o"," ","U","K","NL","G",
      "r","o","s","s"," ","W","e","i","g","h","t"," ","1",".","2","k","g">>

\*   |Dropshipper X|
\*   |Goshippro Price: $50 to UK, $40 to DE|
\*   |Profit Per Unit: $3|
\*   |Orders: 2100+|
B_FewProfits ==
    <<"D","r","o","p","s","h","i","p","p","e","r"," ","X","NL","G","o","s","h","i","p","p","r","o",
      " ","P","r","i","c","e",":"," ","$","5","0"," ","t","o"," ","U","K",","," ","$","4","0"," ",
      "t","o"," ","D","E","NL","P","r","o","f","i","t"," ","P","e","r"," ","U","n","i","t",":"," ",
      "$","3","NL","O","r","d","e","r","s",":"," ","2","1","0","0","+">>

\*   |Widget|
\*   |Goshippro Price: $3 to AU, $1 to UK, $2 to EU|
B_Unordered ==
    <<"W","i","d","g","e","t","NL","G","o","s","h","i","p","p","r","o"," ","P","r","i","c","e",":",
      " ","$","3"," ","t","o"," ","A","U",","," ","$","1"," ","t","o"," ","U","K",","," ","$","2",
      " ","t","o"," ","E","U">>

\*   |Daily Widget|
\*   |Goshippro Price: $5 to US, $4 to GB|
B_Alias ==
    <<"D","a","i","l","y"," ","W","i","d","g","e","t","NL","G","o","s","h","i","p","p","r","o"," ",
      "P","r","i","c","e",":"," ","$","5"," ","t","o"," ","U","S",","," ","$","4"," ","t","o"," ",
      "G","B">>

\*   |Dropshipper gadget|
B_Header ==
    <<"D","r","o","p","s","h","i","p","p","e","r"," ","g","a","d","g","e","t">>

\*   |<BELL> Dropshipper deal|
\*   |Orders: abc|
B_Bell ==
    <<"BELL"," ","D","r","o","p","s","h","i","p","p","e","r"," ","d","e","a","l","NL","O","r","d",
      "e","r","s",":"," ","a","b","c">>

\* the texts format_description is called with
FdInputs == {T_E2E, T_Usa5, T_Blank, T_Alias, T_Germany, T_Mixed, T_Hause, T_OrdersNoColon, T_Orders, T_OrdersPlus, T_Unordered, T_Profits,
             T_Pairing, T_MoreMargins}

\* the blocks parse_block is called with
PbInputs == {B_Full, B_NoColon, B_FewProfits, B_Unordered, B_Alias, B_Header, B_Bell, T_E2E, T_Blank}

\* how many times a rendering is fed back to its formatter as a raw listing
MaxRerender == 1

----------------------------------------------------------------------------
(* State *)

VARIABLES
    script,     \* the script this process runs: "product_formatter" or "goshippro_formatter"
    requests,   \* product_formatter.requests: "present", or "missing" (the import failed)
    hasLog,     \* builtins has a log function
    logged,     \* the entries log() has printed
    fd_pc,      \* format_description: "idle", "awaiting" (the call in the executor), "done", "raised"
    fd_text,    \* its argument
    fd_locals,  \* its locals once the fields are extracted
    fd_out,     \* the rendering it returned
    fd_err,     \* the exception that left it
    depth,      \* how many times the text was rendered before
    mcp_pc,     \* call_mcp in the executor: "idle", "queued", "posting", "returned", "raised"
    mcp_ret,    \* what call_mcp returned
    mcp_fail,   \* the failure of the categorization, "none" without one
    elapsed,    \* time units since the POST was issued
    waited,     \* time units format_description has waited for the executor
    calls,      \* calls of call_mcp within this call of format_description
    posts,      \* POSTs issued within this call of format_description
    nlogged,    \* entries logged within this call of format_description
    pb_pc,      \* parse_block: "idle", "done", "raised"
    pb_raw,     \* its argument
    pb_res      \* its locals and its result

vars == <<script, requests, hasLog, logged, fd_pc, fd_text, fd_locals, fd_out, fd_err, depth,
          mcp_pc, mcp_ret, mcp_fail, elapsed, waited, calls, posts, nlogged, pb_pc, pb_raw, pb_res>>

fdVars == <<fd_pc, fd_text, fd_locals, fd_out, fd_err, depth>>

mcpVars == <<mcp_pc, mcp_ret, mcp_fail, elapsed, waited, calls, posts, nlogged>>

pbVars == <<pb_pc, pb_raw, pb_res>>

\* the locals of a call that extracted nothing
NoLocals ==
    [raised |-> FALSE, emoji |-> "SMILE", keyword |-> <<>>, date_line |-> <<>>, price_info |-> <<>>,
     title |-> <<>>, weight |-> <<>>, ship_times |-> <<>>, orders_line |-> <<>>, profits |-> <<>>,
     margins |-> <<>>, rrp |-> <<>>]

\* the result of parse_block before it ran
NoResult == [raised |-> FALSE, out |-> <<>>, prices |-> <<>>, header |-> <<>>, orders_line |-> <<>>]

Init ==
    /\ script \in {"product_formatter", "goshippro_formatter"}
    /\ requests \in IF script = "product_formatter" THEN {"present", "missing"} ELSE {"missing"}
    /\ hasLog = FALSE
    /\ logged = <<>>
    /\ fd_pc = "idle" /\ fd_text = <<>> /\ fd_locals = NoLocals /\ fd_out = <<>> /\ fd_err = "none"
    /\ depth = 0
    /\ mcp_pc = "idle" /\ mcp_ret = <<>> /\ mcp_fail = "none"
    /\ elapsed = 0 /\ waited = 0 /\ calls = 0 /\ posts = 0 /\ nlogged = 0
    /\ pb_pc = "idle" /\ pb_raw = <<>> /\ pb_res = NoResult

----------------------------------------------------------------------------
(* logging_helper.py *)

\* importing logging_helper installs builtins.log when there is none
ImportLoggingHelper ==
    /\ script = "product_formatter"
    /\ ~hasLog
    /\ hasLog' = TRUE
    /\ UNCHANGED <<script, requests, logged, fdVars, mcpVars, pbVars>>

----------------------------------------------------------------------------
(* product_formatter.py: format_description and call_mcp *)

\* format_description(t) up to its await: blank text returns "", a label line
\* without a colon raises IndexError, otherwise call_mcp goes to the executor
FormatStart(t, d) ==
    /\ script = "product_formatter"
    /\ fd_text' = t
    /\ depth' = d
    /\ fd_out' = <<>>
    /\ mcp_ret' = <<>> /\ mcp_fail' = "none"
    /\ elapsed' = 0 /\ waited' = 0 /\ calls' = 0 /\ posts' = 0 /\ nlogged' = 0
    /\ IF strip(t) = <<>>
       THEN fd_pc' = "done" /\ fd_locals' = NoLocals /\ fd_err' = "none" /\ mcp_pc' = "idle"
       ELSE /\ fd_locals' = FormatLocals(t)
            /\ IF fd_locals'.raised
               THEN fd_pc' = "raised" /\ fd_err' = "IndexError" /\ mcp_pc' = "idle"
               ELSE fd_pc' = "awaiting" /\ fd_err' = "none" /\ mcp_pc' = "queued"
    /\ UNCHANGED <<script, requests, hasLog, logged, pbVars>>

\* formatproduct: format_description on a raw listing
Format == \E t \in FdInputs : fd_pc = "idle" /\ FormatStart(t, 0)

\* format_description on the rendering it returned
Reformat ==
    /\ fd_pc = "done"
    /\ fd_out # <<>>
    /\ depth < MaxRerender
    /\ FormatStart(fd_out, depth + 1)

\* the failure path of call_mcp: log(...) and return "Unknown"; the name log
\* is looked up in builtins, and without it the lookup raises NameError
McpFail(mode, msg) ==
    /\ mcp_fail' = mode
    /\ IF hasLog
       THEN /\ logged' = Append(logged, [msg |-> msg, type_ |-> "ERROR"])
            /\ nlogged' = nlogged + 1
            /\ mcp_ret' = Unknown
            /\ mcp_pc' = "returned"
       ELSE /\ mcp_pc' = "raised"
            /\ UNCHANGED <<logged, nlogged, mcp_ret>>

\* the executor runs call_mcp: without the requests library it fails at once,
\* otherwise it issues the POST
McpCall ==
    /\ mcp_pc = "queued"
    /\ calls' = calls + 1
    /\ IF requests = "missing"
       THEN McpFail("library_missing", "requests library missing for MCP call") /\ posts' = posts
       ELSE /\ mcp_pc' = "posting"
            /\ posts' = posts + 1
            /\ UNCHANGED <<logged, nlogged, mcp_ret, mcp_fail>>
    /\ UNCHANGED <<script, requests, hasLog, fdVars, elapsed, waited, pbVars>>

\* a time unit passes while the POST is in flight
Tick ==
    /\ mcp_pc = "posting"
    /\ elapsed < TIMEOUT
    /\ elapsed' = elapsed + 1
    /\ waited' = IF fd_pc = "awaiting" THEN waited + 1 ELSE waited
    /\ UNCHANGED <<script, requests, hasLog, logged, fdVars, mcp_pc, mcp_ret, mcp_fail,
                   calls, posts, nlogged, pbVars>>

\* the endpoint answers: call_mcp returns the cleaned output, or takes its
\* except branch
McpRespond ==
    \E r \in Responses :
        /\ mcp_pc = "posting"
        /\ IF r.kind = "ok"
           THEN /\ mcp_ret' = clean_block(r.output)
                /\ mcp_pc' = "returned"
                /\ UNCHANGED <<logged, nlogged, mcp_fail>>
           ELSE McpFail(r.kind, "MCP error")
        /\ UNCHANGED <<script, requests, hasLog, fdVars, elapsed, waited, calls, posts, pbVars>>

\* no answer within the timeout: requests.post raises
McpTimeout ==
    /\ mcp_pc = "posting"
    /\ elapsed = TIMEOUT
    /\ McpFail("timeout", "MCP error")
    /\ UNCHANGED <<script, requests, hasLog, fdVars, elapsed, waited, calls, posts, pbVars>>

\* AwaitDone with the call dispatched and not awaited
AwaitDone_FireAndForget == TRUE

\* await run_in_thread(call_mcp, ...): the executor's future is done
AwaitDone == mcp_pc \in {"returned", "raised"}

\* format_description after its await: the exception of call_mcp leaves it,
\* otherwise it renders its locals; what call_mcp returned is dropped
FormatResume ==
    /\ fd_pc = "awaiting"
    /\ AwaitDone
    /\ IF mcp_pc = "raised"
       THEN fd_pc' = "raised" /\ fd_err' = "NameError" /\ fd_out' = fd_out
       ELSE fd_pc' = "done" /\ fd_err' = fd_err /\ fd_out' = FormatRender(fd_locals)
    /\ UNCHANGED <<script, requests, hasLog, logged, fd_text, fd_locals, depth, mcpVars, pbVars>>

----------------------------------------------------------------------------
(* goshippro_formatter.py: main *)

\* parse_block(raw)
ParseStart(raw, d) ==
    /\ script = "goshippro_formatter"
    /\ pb_raw' = raw
    /\ pb_res' = parse_block(raw)
    /\ pb_pc' = IF pb_res'.raised THEN "raised" ELSE "done"
    /\ depth' = d
    /\ UNCHANGED <<script, requests, hasLog, logged, fd_pc, fd_text, fd_locals, fd_out, fd_err,
                   mcpVars>>

\* main: parse_block on a block of the input
ParseBlock == \E raw \in PbInputs : pb_pc = "idle" /\ ParseStart(raw, 0)

\* parse_block on the rendering it returned
Reparse ==
    /\ pb_pc = "done"
    /\ pb_res.out # <<>>
    /\ depth < MaxRerender
    /\ ParseStart(pb_res.out, depth + 1)

Next ==
    \/ ImportLoggingHelper
    \/ Format
    \/ Reformat
    \/ McpCall
    \/ Tick
    \/ McpRespond
    \/ McpTimeout
    \/ FormatResume
    \/ ParseBlock
    \/ Reparse

Spec == Init /\ [][Next]_vars

----------------------------------------------------------------------------
(* Reading a rendering back *)

\* the lines of s, the empty ones kept
SplitLines(s) ==
    LET nl == SortedSeq({i \in 1..Len(s) : s[i] = "NL"})
        from(k) == IF k = 1 THEN 1 ELSE nl[k - 1] + 1
        to(k) == IF k > Len(nl) THEN Len(s) ELSE nl[k] - 1
    IN [k \in 1..(Len(nl) + 1) |-> SubSeq(s, from(k), to(k))]

\* the lines of the price list of a rendering: from the fifth line of the
\* template to the next empty line
PriceListOf(out) ==
    LET ls == SplitLines(out)
        end == Min({k \in 5..Len(ls) : ls[k] = <<>>})
    IN SubSeq(ls, 5, end - 1)

\* the country code of a price line "- <flag> <code>: **<amount>**..."
CodeOfPriceLine(line) == SubSeq(line, 6, Min({k \in 1..Len(line) : line[k] = ":"}) - 1)

\* the country codes of the price list of a rendering, in order
PriceListCodes(out) == [k \in 1..Len(PriceListOf(out)) |-> CodeOfPriceLine(PriceListOf(out)[k])]

\* the first non-blank line of a listing, stripped
HeaderLine(text) == StrippedPieces(text, {"NL"})[1]

USA == <<"U","S","A">>

UK == <<"U","K">>

DE == <<"D","E">>

AU == <<"A","U">>

EU == <<"E","U">>

\* the fixed display order of the price list
DisplayOrder == <<USA, UK, DE, AU>>

\* the categorization call of this format_description failed
McpFailed == mcp_fail # "none"

\* format_description returned a rendering
FdRendered == fd_pc = "done" /\ fd_out # <<>>

\* parse_block returned a rendering
PbRendered == pb_pc = "done" /\ pb_res.out # <<>>

----------------------------------------------------------------------------
(* C1 *)

\* C1: whatever the failure of the categorization call (library missing, the
\* POST raising, a non-success answer), call_mcp logs it and returns "Unknown"
\* without raising, and format_description still returns its rendering, the
\* one of a successful categorization, without the sentinel in it.
C1_FailureNeverReachesCaller ==
    /\ mcp_pc # "raised"
    /\ (McpFailed /\ mcp_pc = "returned") => (mcp_ret = Unknown /\ nlogged = 1)
    /\ fd_pc = "raised" => fd_err # "NameError"
    /\ (McpFailed /\ fd_pc = "done") =>
          /\ fd_out # <<>>
          /\ fd_out = FormatRender(fd_locals)
          /\ ~Contains(SubSeq(fd_out, 1, Len(fd_out)), Unknown)

----------------------------------------------------------------------------
(* C2 *)

\* C2 as stated: the rendering is available to the caller of
\* format_description with no time spent waiting for call_mcp.
C2_RenderingNeverDelayed == fd_pc = "done" => waited = 0

\* C2 as amended: format_description awaits the call it sent to the executor;
\* its rendering is available only once call_mcp has returned, after waiting
\* for the whole of the POST, at most the timeout.
C2_RenderingAfterCallReturns ==
    FdRendered => (mcp_pc = "returned" /\ waited = elapsed /\ waited <= TIMEOUT)

\* a rendering delivered after a categorization that took the whole timeout
C2_Witness == FdRendered /\ mcp_fail = "timeout" /\ waited = TIMEOUT

----------------------------------------------------------------------------
(* C3 *)

\* C3: within one call of format_description the categorization is attempted
\* at most once, exactly once for a non-blank listing and never for a blank
\* one, without retry, and a failing attempt logs exactly one error entry.
C3_OneAttemptOneLogEntry ==
    /\ calls <= 1
    /\ posts <= 1
    /\ fd_pc = "done" => calls = (IF strip(fd_text) = <<>> THEN 0 ELSE 1)
    /\ McpFailed => nlogged = 1

----------------------------------------------------------------------------
(* C4 *)

\* the priority of the claim: Daily, then Dropshipper(s), then neutral
C4_Priority(header) ==
    IF Contains(header, <<"D","a","i","l","y">>) THEN "BELL"
    ELSE IF Contains(header, <<"D","r","o","p","s","h","i","p","p","e","r">>) THEN "FIRE"
    ELSE "SMILE"

\* C4: in both formatters the emoji of the rendering is decided by the header
\* line alone: bell if it contains "Daily", whatever else it holds, a leading
\* emoji included; otherwise fire if it contains "Dropshipper"; otherwise neutral.
C4_EmojiFromHeaderAlone ==
    /\ PbRendered => pb_res.out[1] = C4_Priority(pb_res.header)
    /\ FdRendered => fd_out[1] = C4_Priority(HeaderLine(fd_text))

----------------------------------------------------------------------------
(* C5 *)

\* format 2 of the reference: the amount, "to", and a country code that is a
\* whole word of two or three letters
C5_M2At(sub, i) ==
    /\ M2At(sub, i)
    /\ IsBoundary(sub, M2CodeAt(sub, i))
    /\ IsBoundary(sub, M2CodeAt(sub, i) + M2CodeLen(sub, M2CodeAt(sub, i)))

\* one fragment of the reference: at most one entry, from format 1 if it
\* matches, from format 2 only otherwise
C5_Entry(data, sub) ==
    LET S1 == {i \in 1..Len(sub) : M1At(sub, i)}
        S2 == {i \in 1..Len(sub) : C5_M2At(sub, i)}
        i1 == Min(S1)
        a1 == M1AmountAt(sub, i1)
        i2 == Min(S2)
        c2 == M2CodeAt(sub, i2)
    IN IF S1 # {}
       THEN DictPut(data, upper_str(SubSeq(sub, i1, i1 + M1CodeLen(sub, i1) - 1)),
                    [price |-> SubSeq(sub, a1, AmountEnd(sub, a1) - 1), shipping |-> ShippingOf(sub)])
       ELSE IF S2 # {}
       THEN DictPut(data, upper_str(SubSeq(sub, c2, c2 + M2CodeLen(sub, c2) - 1)),
                    [price |-> SubSeq(sub, i2, AmountEnd(sub, i2) - 1), shipping |-> ShippingOf(sub)])
       ELSE data

RECURSIVE C5_Fold(_, _)
\* the fold of the reference over the fragments, in order
C5_Fold(frags, data) ==
    IF frags = <<>> THEN data ELSE C5_Fold(Tail(frags), C5_Entry(data, Head(frags)))

\* C5: parse_prices equals the reference: the fold over the fragments, each
\* giving at most one entry, format 1 before format 2, no word longer than
\* three letters taken as the country code, the later entry of a code
\* replacing the earlier one.
C5_ParsePricesIsReference ==
    fd_pc \in {"awaiting", "done"} /\ strip(fd_text) # <<>> =>
        fd_locals.price_info = C5_Fold(Fragments(StripDates(StripKeyword(fd_text))), <<>>)

----------------------------------------------------------------------------
(* C6 *)

\* the subsequence of the display order made of the countries in keys
C6_DisplaySubsequence(keys) ==
    SelectSeq(DisplayOrder, LAMBDA c : \E k \in 1..Len(keys) : keys[k] = c)

\* C6: in every rendering the price list is exactly the subsequence of the
\* display order USA, UK, DE, AU made of the countries a price was parsed for:
\* no line for a display-order country without a price, none for a parsed
\* country outside the display order.
C6_PriceListInDisplayOrder ==
    /\ FdRendered => PriceListCodes(fd_out) = C6_DisplaySubsequence(DictKeys(fd_locals.price_info))
    /\ PbRendered => PriceListCodes(pb_res.out) = C6_DisplaySubsequence(DictKeys(pb_res.prices))

\* a rendering of prices given as AU, UK, EU, USA: the list is USA, UK, AU
C6_Witness ==
    /\ FdRendered
    /\ DictKeys(fd_locals.price_info) = <<AU, UK, EU, USA>>
    /\ PriceListCodes(fd_out) = <<USA, UK, AU>>

----------------------------------------------------------------------------
(* C7 *)

\* C7: formatting is total: no block makes parse_block or format_description
\* raise from a field it cannot extract (a labelled line without a colon,
\* fewer profit figures than priced countries, an earlier rendering).
C7_FormattingIsTotal ==
    /\ pb_pc # "raised"
    /\ ~(fd_pc = "raised" /\ fd_err = "IndexError")

----------------------------------------------------------------------------
(* C8 *)

\* the alias table of the claim: US -> USA, GB -> UK
C8_Normalized(code) ==
    IF code = <<"U","S">> THEN USA ELSE IF code = <<"G","B">> THEN UK ELSE code

\* C8: country codes are stored alias-normalized, a price for US under USA
\* and a price for GB under UK.
C8_AliasesNormalized ==
    /\ \A k \in 1..Len(fd_locals.price_info) :
          fd_locals.price_info[k].key = C8_Normalized(fd_locals.price_info[k].key)
    /\ \A k \in 1..Len(pb_res.prices) :
          pb_res.prices[k].key = C8_Normalized(pb_res.prices[k].key)

----------------------------------------------------------------------------
(* C9 *)

\* what the claim says of a rendering of the listing T_E2E
C9_Expected(out) ==
    /\ out[1] = "FIRE"
    /\ SplitLines(out)[2] = <<"*","2","0","2","4","-","0","6","-","3","0","*">>
    /\ PriceListCodes(out) = <<USA, UK>>
    /\ Contains(out, <<"NL","-"," ","P","e","s","o"," ","b","r","u","t","o",":"," ","1",".","2","k","g","NL">>)
    /\ Contains(out, <<":"," ","U","S","A"," ","1","0","-","1","5"," ","d","a","y","s","NL">>)
    /\ Contains(out, <<"BACKTICK","g","a","d","g","e","t","BACKTICK">>)

\* C9: both formatters render the listing T_E2E with the fire emoji, the date
\* line *2024-06-30*, the two price lines USA then UK, the weight 1.2kg, the
\* transit summary "USA 10-15 days" and the keyword gadget.
C9_EndToEnd ==
    /\ (PbRendered /\ pb_raw = T_E2E) => C9_Expected(pb_res.out)
    /\ (FdRendered /\ fd_text = T_E2E) => C9_Expected(fd_out)

----------------------------------------------------------------------------
(* C10 *)

\* the digits d with a comma before every group of three from the right
C10_Grouped(d) ==
    Flatten([k \in 1..Len(d) |->
                IF k < Len(d) /\ (Len(d) - k) % 3 = 0 THEN <<d[k], ",">> ELSE <<d[k]>>])

\* the order count of the claim: digits grouped by three, a trailing "+"
\* kept, any other text unchanged
C10_FormatThousands(t) ==
    LET d == IF t # <<>> /\ t[Len(t)] = "+" THEN SubSeq(t, 1, Len(t) - 1) ELSE t
    IN IF d # <<>> /\ \A k \in 1..Len(d) : d[k] \in Digits
       THEN C10_Grouped(d) \o SubSeq(t, Len(d) + 1, Len(t))
       ELSE t

\* C10: the orders line of a rendering is the order count with comma group
\* separators (2100 as 2,100, 2100+ as 2,100+), other text unchanged.
C10_OrdersGrouped ==
    /\ (FdRendered /\ fd_locals.orders_line # <<>>) =>
          Contains(fd_out, <<"NL","-"," ">> \o C10_FormatThousands(fd_locals.orders_line) \o <<"NL">>)
    /\ (PbRendered /\ pb_res.orders_line # <<>>) =>
          Contains(pb_res.out, <<"NL","-"," ">> \o C10_FormatThousands(pb_res.orders_line) \o <<"NL">>)

----------------------------------------------------------------------------
(* C11 *)

\* the annotation the price line of display index i (from 0) carries:
\* profits[i] when i < len(profits), margins[i] with it when also i < len(margins)
C11_Annotation(i, profits, margins) ==
    IF i < Len(profits)
    THEN <<" ","(","MONEYWINGS"," ","$">> \o profits[i + 1]
         \o (IF i < Len(margins) THEN <<" ","BULLET"," ">> \o margins[i + 1] \o <<"%">> ELSE <<>>)
         \o <<")">>
    ELSE <<>>

\* the price line of the display-order country k (from 1) as the claim has it
C11_Line(k, l) ==
    <<"-"," ">> \o COUNTRY_ORDER[k].flag \o <<" ">> \o DisplayOrder[k] \o <<":"," ","*","*">>
    \o DictGet(l.price_info, DisplayOrder[k]).price \o <<"*","*">>
    \o C11_Annotation(k - 1, l.profits, l.margins)

\* C11: in format_description the profit and margin figures go with the
\* countries by their index in the display order, not by their position among
\* the priced countries: the price line of the country at display index i
\* carries profits[i] exactly when i < len(profits), margins[i] with it exactly
\* when also i < len(margins), and never a margin without a profit.
C11_PairedByDisplayIndex ==
    FdRendered =>
        \A k \in 1..Len(DisplayOrder) :
            DictHas(fd_locals.price_info, DisplayOrder[k]) =>
                \E j \in 1..Len(PriceListOf(fd_out)) :
                    /\ CodeOfPriceLine(PriceListOf(fd_out)[j]) = DisplayOrder[k]
                    /\ PriceListOf(fd_out)[j] = C11_Line(k, fd_locals)

\* a rendering of prices for UK, DE, AU with three profits and two margins:
\* UK carries the second profit and margin, DE the third profit alone, AU nothing
C11_Witness ==
    /\ FdRendered
    /\ fd_locals.profits = << <<"1">>, <<"2">>, <<"3">> >>
    /\ fd_locals.margins = << <<"5">>, <<"6">> >>
    /\ PriceListCodes(fd_out) = <<UK, DE, AU>>
    /\ Contains(fd_out, <<"U","K",":"," ","*","*","POUND","7","*","*"," ","(","MONEYWINGS"," ","$","2",
                          " ","BULLET"," ","6","%",")","NL">>)
    /\ Contains(fd_out, <<"D","E",":"," ","*","*","EURO","8","*","*"," ","(","MONEYWINGS"," ","$","3",")","NL">>)
    /\ Contains(fd_out, <<"A","U",":"," ","*","*","$","9","*","*","NL">>)

----------------------------------------------------------------------------
(* C12 *)

\* C12: the failure path of call_mcp does not depend on the state of builtins:
\* when the categorization fails, with or without a log function installed,
\* call_mcp returns and format_description, once past its await, has returned
\* its rendering without raising.
C12_FailurePathIgnoresBuiltins ==
    McpFailed =>
        /\ mcp_pc = "returned"
        /\ fd_pc # "awaiting" => (fd_pc = "done" /\ fd_out = FormatRender(fd_locals))

====
